---------------------------- MODULE Spec2Model ----------------------------
(***************************************************************************)
(* The fetch orchestration engine of onecrawl: the LRU freshness cache,    *)
(* the per-origin concurrency limiter (OriginQueue), the request           *)
(* deduplication of FetchPoolScraperAdapter.scrape and the retrying batch  *)
(* driver (scrapeMany / scrapeWithRetry).                                  *)
(*                                                                         *)
(* Optional values (undefined / null in the source) are sequences of       *)
(* length at most one: << >> is "absent", <<v>> is "present with value v". *)
(* Times are milliseconds, as Date.now() gives them.                       *)
(***************************************************************************)
EXTENDS Integers, Sequences, FiniteSets, TLC

VARIABLES
    now,              \* Date.now()
    maxSize,          \* LruCache.maxSize
    ttl,              \* LruCache.ttl (default TTL, ms)
    entries,          \* LruCache.entries: a Map, kept in insertion order
    lastOp,           \* history: the operation of the last step, what it
                      \* found and what it returned
    maxConcurrency,   \* OriginQueue.maxConcurrency
    oq,               \* OriginQueue: origins map, state objects, tasks, microtasks
    pendingRequests,  \* FetchPoolScraperAdapter.pendingRequests (url -> tracker)
    fetches,          \* one record per executeFetch closure handed to enqueue,
                      \* with the number of callers awaiting its promise
    aborted,          \* signal.aborted of the AbortSignal callers may pass
    batch             \* the scrapeMany call: options, loops, results, failed

vars == <<now, maxSize, ttl, entries, lastOp, maxConcurrency, oq,
          pendingRequests, fetches, aborted, batch>>

cacheVars == <<maxSize, ttl, entries>>

----------------------------------------------------------------------------
(* Bounds of the model *)

\* largest LruCache capacity tried
MaxCap == 3
\* the cache specification's clock runs 0 .. MaxNow (ms)
MaxNow == 3
\* number of enqueue calls of the queue specification
MaxTasks == 4
\* largest maxConcurrency tried
MaxK == 2
\* state objects an OriginQueue may allocate in one run
MaxStates == 3
\* fetches (executeFetch closures) one run of the adapter may start
MaxFetches == 2
\* callers that may await the promise of one fetch
MaxCallers == 2
\* the adapter specification's clock runs 0 .. MaxTicks * ClockStep
MaxTicks == 2
\* largest retries option of scrapeMany tried
MaxRetries == 1

None == << >>
Some(v) == <<v>>
Has(x) == x # << >>
Val(x) == x[1]

Keys == {"k1", "k2", "k3"}
\* default TTLs and per-entry overrides tried by the cache specification (ms)
TtlChoices == {1, 3}
OverrideChoices == {None, Some(2)}

----------------------------------------------------------------------------
(* LruCache: src/src/adapters/undici/scraper.adapter.ts 848-943            *)
(* (the file lru-cache.ts of the fetch-pool adapter)                       *)

\* CacheEntry<T>
CacheEntry(data, timestamp, etag, lastModified, ttlOverride) ==
    [data |-> data, timestamp |-> timestamp, etag |-> etag,
     lastModified |-> lastModified, ttlOverride |-> ttlOverride]

\* A Map slot: the key and its CacheEntry; the sequence order is the Map's
\* insertion order (oldest first).
Slot(key, entry) == [key |-> key, entry |-> entry]

\* Map.has / Map.get
MapHas(es, key) == \E i \in 1..Len(es) : es[i].key = key
MapGet(es, key) == (CHOOSE i \in 1..Len(es) : es[i].key = key)

\* Map.delete(key): removes the slot, keeps the order of the others
MapDeleteNothing(es, key) == es

MapDelete(es, key) == SelectSeq(es, LAMBDA s : s.key # key)

\* Map.set(key, entry): overwrites in place when present, else appends
MapSet(es, key, entry) ==
    IF MapHas(es, key)
    THEN [i \in 1..Len(es) |-> IF es[i].key = key THEN Slot(key, entry) ELSE es[i]]
    ELSE Append(es, Slot(key, entry))

\* Math.ceil(maxSize * 0.9) and Math.floor(maxSize * 0.7); the integer forms
\* agree with the IEEE double results for every maxSize below 90.
HighWatermarkAbove(m) == m + 1

HighWatermark(m) == (9 * m + 9) \div 10

LowWatermarkHalf(m) == m \div 2

LowWatermark(m) == (7 * m) \div 10

\* entry.ttlOverride ?? this.ttl
effectiveTtl(entry, t) == IF Has(entry.ttlOverride) THEN Val(entry.ttlOverride) ELSE t

\* the expiry test of get() and lookup(): Date.now() - entry.timestamp > effectiveTtl
expired(entry, t, n) == n - entry.timestamp > effectiveTtl(entry, t)

\* LruCache.evict: delete in Map iteration order until size <= target
RECURSIVE evictTo(_, _)
evictTo(es, target) ==
    IF Len(es) > target /\ Len(es) > 0 THEN evictTo(Tail(es), target) ELSE es

evictNothing(es, m) == es

evict(es, m) == evictTo(es, LowWatermark(m))

\* LruCache.set
setThenEvict(es, m, key, entry) ==
    LET d == MapSet(MapDelete(es, key), key, entry)
    IN  IF Len(d) >= HighWatermark(m) THEN evict(d, m) ELSE d

set(es, m, key, entry) ==
    LET d == MapDelete(es, key)
        e == IF Len(d) >= HighWatermark(m) THEN evict(d, m) ELSE d
    IN  MapSet(e, key, entry)

\* LruCache.lookup: [fresh, stale, entries']
lookupNoBump(es, t, n, key) ==
    IF ~MapHas(es, key)
    THEN [fresh |-> None, stale |-> None, entries |-> es]
    ELSE LET entry == es[MapGet(es, key)].entry IN
         IF expired(entry, t, n)
         THEN [fresh |-> None, stale |-> Some(entry), entries |-> es]
         ELSE [fresh |-> Some(entry), stale |-> None, entries |-> es]

lookupDropExpired(es, t, n, key) ==
    IF ~MapHas(es, key)
    THEN [fresh |-> None, stale |-> None, entries |-> es]
    ELSE LET entry == es[MapGet(es, key)].entry IN
         IF expired(entry, t, n)
         THEN [fresh |-> None, stale |-> Some(entry),
               entries |-> MapDelete(es, key)]
         ELSE [fresh |-> Some(entry), stale |-> None,
               entries |-> MapSet(MapDelete(es, key), key, entry)]

lookup(es, t, n, key) ==
    IF ~MapHas(es, key)
    THEN [fresh |-> None, stale |-> None, entries |-> es]
    ELSE LET entry == es[MapGet(es, key)].entry IN
         IF expired(entry, t, n)
         THEN [fresh |-> None, stale |-> Some(entry), entries |-> es]
         ELSE [fresh |-> Some(entry), stale |-> None,
               entries |-> MapSet(MapDelete(es, key), key, entry)]

\* LruCache.get: [value, entries']
get(es, t, n, key) ==
    IF ~MapHas(es, key)
    THEN [value |-> None, entries |-> es]
    ELSE LET entry == es[MapGet(es, key)].entry IN
         IF expired(entry, t, n)
         THEN [value |-> None, entries |-> MapDelete(es, key)]
         ELSE [value |-> Some(entry),
               entries |-> MapSet(MapDelete(es, key), key, entry)]

\* LruCache.getStale
getStale(es, key) ==
    IF MapHas(es, key) THEN Some(es[MapGet(es, key)].entry) ELSE None

\* LruCache.clear
clear(es) == << >>


----------------------------------------------------------------------------
(* OriginQueue: src/src/adapters/fetch-pool/origin-queue.ts                *)
(*                                                                         *)
(* oq.origins    the Map origin -> OriginState, as origin -> optional id   *)
(* oq.states     every OriginState object ever allocated: pending, active  *)
(* oq.tasks      every task handed to enqueue, with the state object its   *)
(*               closure captured                                          *)
(* oq.microtasks the queueMicrotask(() => this.dequeue(origin, state))     *)
(*               callbacks not yet run, in queue order                     *)

Origins == {"oA", "oB"}

OriginState == [pending |-> << >>, active |-> 0]

QueuedRequest(origin, state, status) ==
    [origin |-> origin, state |-> state, status |-> status,
     promoted |-> FALSE, result |-> "none"]

EmptyQueue ==
    [origins |-> [o \in Origins |-> None], states |-> << >>,
     tasks |-> << >>, microtasks |-> << >>]

\* OriginQueue.getOrCreate
getOrCreateShared(q, origin) ==
    IF Has(q.origins[origin]) THEN q
    ELSE IF q.states # << >> THEN [q EXCEPT !.origins[origin] = Some(1)]
    ELSE [q EXCEPT !.states = Append(@, OriginState),
                   !.origins[origin] = Some(Len(q.states) + 1)]

getOrCreate(q, origin) ==
    IF Has(q.origins[origin]) THEN q
    ELSE [q EXCEPT !.states = Append(@, OriginState),
                   !.origins[origin] = Some(Len(q.states) + 1)]

\* OriginQueue.run, up to its await: state.active++ and execute() is called
run(q, origin, s) ==
    [q EXCEPT !.states[s].active = @ + 1,
              !.tasks = Append(@, QueuedRequest(origin, s, "running"))]

\* OriginQueue.enqueue; the new task's id is Len(q.tasks) + 1
enqueue(q, k, origin) ==
    LET q1 == getOrCreate(q, origin)
        s == Val(q1.origins[origin])
    IN  IF q1.states[s].active < k
        THEN run(q1, origin, s)
        ELSE [q1 EXCEPT !.states[s].pending = Append(@, Len(q.tasks) + 1),
                        !.tasks = Append(@, QueuedRequest(origin, s, "pending"))]

\* OriginQueue.dequeue(origin, state)
dequeueNothing(q, origin, s) == q

dequeue(q, origin, s) ==
    IF q.states[s].pending = << >>
    THEN IF q.states[s].active = 0
         THEN [q EXCEPT !.origins[origin] = None]
         ELSE q
    ELSE LET next == Head(q.states[s].pending) IN
         [q EXCEPT !.states[s].pending = Tail(@),
                   !.states[s].active = @ + 1,
                   !.tasks[next].status = "running",
                   !.tasks[next].promoted = TRUE]

\* The task's execute() promise has settled.  A task started by run() goes
\* through run's finally (active--, then dequeue at once); a task promoted by
\* dequeue goes through the second then-callback (active--, then the dequeue
\* is left to a microtask).
settleLeak(q, t, result) ==
    LET task == q.tasks[t]
        q0 == [q EXCEPT !.tasks[t].status = "done", !.tasks[t].result = result]
        q1 == [q0 EXCEPT !.states[task.state].active = @ - 1]
    IN  IF result = "error" THEN q0
        ELSE IF task.promoted
        THEN [q1 EXCEPT !.microtasks = Append(@, task.state)]
        ELSE dequeue(q1, task.origin, task.state)

settleKeepSlot(q, t, result) ==
    LET task == q.tasks[t]
        q0 == [q EXCEPT !.tasks[t].status = "done", !.tasks[t].result = result]
        q1 == [q0 EXCEPT !.states[task.state].active = @ - 1]
    IN  IF task.promoted
        THEN [q0 EXCEPT !.microtasks = Append(@, task.state)]
        ELSE dequeue(q1, task.origin, task.state)

settle(q, t, result) ==
    LET task == q.tasks[t]
        q1 == [q EXCEPT !.tasks[t].status = "done",
                        !.tasks[t].result = result,
                        !.states[task.state].active = @ - 1]
    IN  IF task.promoted
        THEN [q1 EXCEPT !.microtasks = Append(@, task.state)]
        ELSE dequeue(q1, task.origin, task.state)

\* The origin a state object was created for (its closure's `origin`)
OriginOfState(q, s) ==
    CHOOSE o \in Origins :
        \/ \E t \in 1..Len(q.tasks) : q.tasks[t].state = s /\ q.tasks[t].origin = o
        \/ q.origins[o] = Some(s)

\* The oldest queued microtask runs: this.dequeue(origin, state)
runMicrotask(q) ==
    LET s == Head(q.microtasks)
        q1 == [q EXCEPT !.microtasks = Tail(@)]
    IN  dequeue(q1, OriginOfState(q, s), s)

\* Tasks of an origin whose execute() has been called and has not settled
Executing(q, origin) ==
    {t \in 1..Len(q.tasks) :
        q.tasks[t].origin = origin /\ q.tasks[t].status = "running"}

----------------------------------------------------------------------------
(* Values the variables of a component hold while a specification does not *)
(* exercise that component                                                 *)

NoOp == [op |-> "none"]
CacheUnused == /\ maxSize = 1 /\ ttl = 1 /\ entries = << >> /\ lastOp = NoOp
QueueUnused == /\ maxConcurrency = 1 /\ oq = EmptyQueue
AdapterUnused ==
    /\ pendingRequests = << >> /\ fetches = << >>
    /\ aborted = FALSE
BatchUnused == batch = << >>

----------------------------------------------------------------------------
(* SpecQueue: one OriginQueue driven by arbitrary callers                  *)

InitQueue ==
    /\ now = 0
    /\ CacheUnused /\ AdapterUnused /\ BatchUnused
    /\ maxConcurrency \in 1..MaxK
    /\ oq = EmptyQueue

\* a caller calls queue.enqueue(origin, execute)
QEnqueue(origin) ==
    /\ Len(oq.tasks) < MaxTasks
    /\ Has(oq.origins[origin]) \/ Len(oq.states) < MaxStates
    /\ oq' = enqueue(oq, maxConcurrency, origin)
    /\ UNCHANGED <<now, cacheVars, lastOp, maxConcurrency, pendingRequests,
                   fetches, aborted, batch>>

\* a running task's promise resolves or rejects
QSettle(t, result) ==
    /\ t \in 1..Len(oq.tasks)
    /\ oq.tasks[t].status = "running"
    /\ oq' = settle(oq, t, result)
    /\ UNCHANGED <<now, cacheVars, lastOp, maxConcurrency, pendingRequests,
                   fetches, aborted, batch>>

\* the microtask queued by a promoted task's completion runs
QMicrotask ==
    /\ oq.microtasks # << >>
    /\ oq' = runMicrotask(oq)
    /\ UNCHANGED <<now, cacheVars, lastOp, maxConcurrency, pendingRequests,
                   fetches, aborted, batch>>

NextQueue ==
    \/ \E origin \in Origins : QEnqueue(origin)
    \/ \E t \in 1..MaxTasks, result \in {"ok", "error"} : QSettle(t, result)
    \/ QMicrotask

SpecQueue == InitQueue /\ [][NextQueue]_vars

\* C1: with maxConcurrency k >= 1, the number of tasks of one origin that
\* are executing at the same time never exceeds k.
C1_ConcurrencyBound ==
    \A origin \in Origins : Cardinality(Executing(oq, origin)) <= maxConcurrency

\* C3: tasks of one origin start in the order they were enqueued: no task has
\* started while a task enqueued earlier for the same origin is still waiting
\* in the pending queue.
C3_FifoStart ==
    \A i, j \in 1..Len(oq.tasks) :
        (i < j /\ oq.tasks[i].origin = oq.tasks[j].origin
               /\ oq.tasks[i].status = "pending")
            => oq.tasks[j].status = "pending"


\* what the step in which task t fails does to the queue
FailureStep(t) ==
    LET s == oq.tasks[t].state
        before == oq.states[s]
        after == oq'.states[s]
    IN  /\ Len(oq'.tasks) = Len(oq.tasks)
        /\ \A u \in 1..Len(oq.tasks) :
              u # t => oq'.tasks[u].result = oq.tasks[u].result
        /\ IF oq.tasks[t].promoted
           THEN \* slot released, dequeue left to a microtask
                /\ after.active = before.active - 1
                /\ after.pending = before.pending
                /\ oq'.microtasks = Append(oq.microtasks, s)
           ELSE IF before.pending # << >>
           THEN \* slot released and handed to the oldest pending task
                /\ after.active = before.active
                /\ after.pending = Tail(before.pending)
                /\ oq'.tasks[Head(before.pending)].status = "running"
           ELSE after.active = before.active - 1

Untouched(o) ==
    /\ oq'.origins[o] = oq.origins[o]
    /\ \A s \in 1..Len(oq.states) :
          OriginOfState(oq, s) = o => oq'.states[s] = oq.states[s]
    /\ \A u \in 1..Len(oq.tasks) :
          oq.tasks[u].origin = o => oq'.tasks[u] = oq.tasks[u]

\* C29: origins are limited independently.  A task enqueued for an origin
\* that has no state yet, or whose active count is below maxConcurrency, is
\* started in the enqueue call, however many tasks are active or pending for
\* the other origins; and an enqueue, a completion and a dequeue microtask
\* of one origin change neither the active count, nor the pending queue, nor
\* the tasks of another origin.
C29_OriginsIndependent ==
    [][/\ Len(oq'.tasks) = Len(oq.tasks) + 1
            => LET t == Len(oq'.tasks)
                   o == oq'.tasks[t].origin
               IN  /\ (\/ ~Has(oq.origins[o])
                       \/ oq.states[Val(oq.origins[o])].active < maxConcurrency)
                         => oq'.tasks[t].status = "running"
                   /\ \A other \in Origins \ {o} : Untouched(other)
       /\ \A t \in 1..Len(oq.tasks) :
             (oq.tasks[t].status = "running" /\ oq'.tasks[t].status = "done")
                => \A other \in Origins \ {oq.tasks[t].origin} : Untouched(other)
       /\ (oq.microtasks # << >> /\ oq'.microtasks = Tail(oq.microtasks))
             => \A other \in Origins \ {OriginOfState(oq, Head(oq.microtasks))} :
                   Untouched(other)
      ]_vars

\* while a task of one origin waits in the pending queue, a task enqueued
\* later for the other origin has been started by its enqueue call, after an
\* earlier task of that other origin completed
C29_Witness ==
    \E t, u, v \in 1..Len(oq.tasks) :
        /\ oq.tasks[t].origin = "oA" /\ oq.tasks[t].status = "pending"
        /\ oq.tasks[v].origin = "oB" /\ oq.tasks[v].status = "done"
        /\ oq.tasks[u].origin = "oB" /\ oq.tasks[u].status = "running"
        /\ ~oq.tasks[u].promoted
        /\ t < v /\ v < u

\* every started task eventually settles, and queued microtasks run
QueueFairness ==
    /\ \A t \in 1..MaxTasks :
          WF_vars(\E result \in {"ok", "error"} : QSettle(t, result))
    /\ WF_vars(QMicrotask)

SpecQueueLive == InitQueue /\ [][NextQueue]_vars /\ QueueFairness

Unsettled(q, origin) ==
    {t \in 1..Len(q.tasks) :
        q.tasks[t].origin = origin /\ q.tasks[t].status \in {"running", "pending"}}

\* a step that removes the state registered for an origin leaves the origin
\* without an executing and without a pending task
RemovedOnlyWhenIdle ==
    \A origin \in Origins :
        (Has(oq.origins[origin]) /\ ~Has(oq'.origins[origin]))
            => Unsettled(oq', origin) = {}

\* every executing or pending task belongs to the state registered for its
\* origin
CountedInRegistered ==
    \A origin \in Origins : \A t \in Unsettled(oq, origin) :
        oq.origins[origin] = Some(oq.tasks[t].state)

\* C35: the state of an origin is removed from the map only when the origin
\* has no active and no pending task, and every active or pending task is
\* counted in the state registered for its origin; so the deferred dequeue of
\* a discarded state never removes a newer state that has running tasks.
C35_DiscardOnlyIdle ==
    [][RemovedOnlyWhenIdle]_vars /\ []CountedInRegistered

----------------------------------------------------------------------------
(* SpecCache: one LruCache driven by arbitrary callers, with the clock     *)

\* how now - entry.timestamp compares with (ttlOverride ?? defaultTTL)
AgeVsTtl(entry, t, n) ==
    LET age == n - entry.timestamp
        limit == IF entry.ttlOverride = None THEN t ELSE entry.ttlOverride[1]
    IN  IF age < limit THEN "below" ELSE IF age = limit THEN "equal" ELSE "above"

\* The keys in the order of their last use, least recently used first, as the
\* callers of the cache saw it: a set and a fresh hit of get or lookup use
\* the key; keys that are no longer stored are forgotten.
Recency(op) == IF "recency" \in DOMAIN op THEN op.recency ELSE << >>

Use(recency, key) == Append(SelectSeq(recency, LAMBDA k : k # key), key)

StoredOf(recency, es) == SelectSeq(recency, LAMBDA k : MapHas(es, k))

\* what a read of `key` found, for lastOp
ReadRecord(op, key, fresh, stale) ==
    [op |-> op, key |-> key, present |-> MapHas(entries, key),
     age |-> IF MapHas(entries, key)
             THEN AgeVsTtl(entries[MapGet(entries, key)].entry, ttl, now)
             ELSE "absent",
     fresh |-> fresh, stale |-> stale,
     afterSet |-> IF /\ lastOp.op = "set" /\ lastOp.key = key
                     /\ lastOp.entry.timestamp = now
                  THEN Some(lastOp.evicted) ELSE None,
     recency |-> StoredOf(IF fresh THEN Use(Recency(lastOp), key)
                          ELSE Recency(lastOp), entries')]

InitCache ==
    /\ now = 0
    /\ maxSize \in 1..MaxCap
    /\ ttl \in TtlChoices
    /\ entries = << >>
    /\ lastOp = NoOp
    /\ QueueUnused /\ AdapterUnused /\ BatchUnused

\* the keys of the latest calls of set, oldest first, as far back as they are
\* distinct and no get, lookup or clear came in between
RECURSIVE DropThrough(_, _)
DropThrough(keys, key) ==
    IF keys = << >> THEN << >>
    ELSE IF Head(keys) = key THEN Tail(keys)
    ELSE DropThrough(Tail(keys), key)

SetRun(op, key) ==
    IF op.op # "set" THEN <<key>>
    ELSE IF \E i \in 1..Len(op.run) : op.run[i] = key
    THEN Append(DropThrough(op.run, key), key)
    ELSE Append(op.run, key)

\* cache.set(key, {data, timestamp: Date.now(), etag, ttlOverride})
CSet(key, ttlOverride) ==
    /\ entries' = set(entries, maxSize, key,
                      CacheEntry("p1", now, None, None, ttlOverride))
    /\ lastOp' = [op |-> "set", key |-> key,
                  evicted |-> Len(MapDelete(entries, key)) + 1 - Len(entries'),
                  entry |-> CacheEntry("p1", now, None, None, ttlOverride),
                  replaced |-> MapHas(entries, key),
                  run |-> SetRun(lastOp, key),
                  recency |-> StoredOf(Use(Recency(lastOp), key), entries')]
    /\ UNCHANGED <<now, maxSize, ttl, maxConcurrency, oq, pendingRequests,
                   fetches, aborted, batch>>

\* cache.lookup(key)
CLookup(key) ==
    LET r == lookup(entries, ttl, now, key) IN
    /\ entries' = r.entries
    /\ lastOp' = ReadRecord("lookup", key, Has(r.fresh), Has(r.stale))
    /\ UNCHANGED <<now, maxSize, ttl, maxConcurrency, oq, pendingRequests,
                   fetches, aborted, batch>>

\* cache.get(key)
CGet(key) ==
    LET r == get(entries, ttl, now, key) IN
    /\ entries' = r.entries
    /\ lastOp' = ReadRecord("get", key, Has(r.value), FALSE)
    /\ UNCHANGED <<now, maxSize, ttl, maxConcurrency, oq, pendingRequests,
                   fetches, aborted, batch>>

\* cache.clear()
CClear ==
    /\ entries' = clear(entries)
    /\ lastOp' = [op |-> "clear"]
    /\ UNCHANGED <<now, maxSize, ttl, maxConcurrency, oq, pendingRequests,
                   fetches, aborted, batch>>

\* one millisecond passes
CTick ==
    /\ now < MaxNow
    /\ now' = now + 1
    /\ UNCHANGED <<cacheVars, lastOp, maxConcurrency, oq, pendingRequests,
                   fetches, aborted, batch>>

NextCache ==
    \/ \E key \in Keys, o \in OverrideChoices : CSet(key, o)
    \/ \E key \in Keys : CLookup(key)
    \/ \E key \in Keys : CGet(key)
    \/ CClear
    \/ CTick

SpecCache == InitCache /\ [][NextCache]_vars

\* C4: with maxSize >= 1 the number of stored entries never exceeds maxSize,
\* whatever sequence of set, get, lookup and clear was applied.
C4_SizeBound == Len(entries) <= maxSize

\* a set that had to evict has just filled the cache to its capacity
C4_Witness ==
    /\ lastOp.op = "set" /\ lastOp.evicted > 0
    /\ Len(entries) = maxSize /\ maxSize > 1

\* C6: lookup returns a stored entry as fresh iff now - timestamp is below
\* (ttlOverride ?? defaultTTL), and as stale in every other case, in
\* particular when now - timestamp equals the effective TTL.
C6_FreshIffBelowTtl ==
    (lastOp.op = "lookup" /\ lastOp.present)
        => /\ lastOp.fresh <=> (lastOp.age = "below")
           /\ lastOp.stale <=> ~lastOp.fresh


\* ---- an LruCache used within one millisecond ----
\* The clock stands still, so every stored entry is fresh; the callers use
\* one key more than the largest capacity tried.

LruKeys == {"k" \o ToString(i) : i \in 1..(MaxCap + 1)}

NextLru ==
    \/ \E key \in LruKeys : CSet(key, None)
    \/ \E key \in LruKeys : CLookup(key)
    \/ \E key \in LruKeys : CGet(key)
    \/ CClear

SpecLru == InitCache /\ [][NextLru]_vars

\* lookup(key) returns the entry, as fresh or as stale
Retrievable(key) ==
    LET r == lookup(entries, ttl, now, key) IN Has(r.fresh) \/ Has(r.stale)

\* C25: with maxSize >= 1, once maxSize + 1 distinct keys have been inserted
\* by consecutive calls of set (no get, lookup or clear in between), lookup
\* finds neither a fresh nor a stale entry for the first of them (nor for any
\* key inserted earlier in the run), and it finds the key inserted last.
C25_OldestUnrecoverable ==
    (lastOp.op = "set" /\ Len(lastOp.run) >= maxSize + 1)
    => /\ \A i \in 1..(Len(lastOp.run) - maxSize) : ~Retrievable(lastOp.run[i])
       /\ Retrievable(lastOp.run[Len(lastOp.run)])
       /\ lastOp.run[Len(lastOp.run)] = lastOp.key

\* the largest capacity tried has just received its (maxSize + 1)-th key
C25_Witness ==
    /\ lastOp.op = "set"
    /\ maxSize = MaxCap
    /\ Len(lastOp.run) = maxSize + 1
    /\ ~Retrievable(lastOp.run[1])
    /\ Retrievable(lastOp.key)
    /\ lastOp.evicted > 0


\* the least c with c >= 0.9 * m, and the greatest c with c <= 0.7 * m
CeilNineTenths(m) == CHOOSE c \in 0..m : 10 * c >= 9 * m /\ 10 * (c - 1) < 9 * m
FloorSevenTenths(m) == CHOOSE c \in 0..m : 10 * c <= 7 * m /\ 10 * (c + 1) > 7 * m

\* the last n elements of a sequence
LastN(s, n) == SubSeq(s, Len(s) - n + 1, Len(s))

StaleLookupStep ==
    (lastOp'.op = "lookup" /\ lastOp'.stale)
        => /\ entries' = entries
           /\ lastOp'.recency = StoredOf(Recency(lastOp), entries)

\* as long as nothing but the clock has moved since a lookup returned the key
\* as stale, another lookup returns the same stored entry as stale again
StaleAgain ==
    (lastOp.op = "lookup" /\ lastOp.stale)
        => LET r == lookup(entries, ttl, now, lastOp.key) IN
           /\ r.fresh = None
           /\ r.stale = getStale(entries, lastOp.key) /\ Has(r.stale)
           /\ r.entries = entries

\* C37: lookup of an expired entry changes nothing in the cache: the entry
\* stays stored with its validators and keeps its recency position, and
\* another lookup returns it as stale again, until a set overwrites it, an
\* eviction (by set or by get) removes it or clear empties the cache.
C37_StaleLookupChangesNothing ==
    [][StaleLookupStep]_vars /\ []StaleAgain

\* lookup has just returned the oldest of several stored entries as stale
C37_Witness ==
    /\ lastOp.op = "lookup" /\ lastOp.stale
    /\ Len(entries) >= 2
    /\ entries[1].key = lastOp.key
    /\ lastOp.recency[1] = lastOp.key

\* C27: set(key, entry) with entry.timestamp = now, followed by lookup(key)
\* before the clock moves, returns that entry as fresh and nothing as stale,
\* also when the set evicted other entries; the entry is stored by its own
\* set, as the most recently used one.
C27_SetThenLookup ==
    /\ (lastOp.op = "set" /\ lastOp.entry.timestamp = now)
        => LET r == lookup(entries, ttl, now, lastOp.key) IN
           /\ r.fresh = Some(lastOp.entry)
           /\ r.stale = None
           /\ getStale(r.entries, lastOp.key) = Some(lastOp.entry)
    /\ (lastOp.op = "lookup" /\ Has(lastOp.afterSet))
        => /\ lastOp.fresh /\ ~lastOp.stale
           /\ entries # << >>
           /\ entries[Len(entries)].key = lastOp.key

\* at a clock value above 0, lookup has just followed a set of the same key
\* that stored an entry with a max-age override and evicted another entry
C27_Witness ==
    /\ lastOp.op = "lookup"
    /\ Has(lastOp.afterSet) /\ Val(lastOp.afterSet) > 0
    /\ lastOp.fresh
    /\ now > 0
    /\ Has(entries[Len(entries)].entry.ttlOverride)
    /\ entries[Len(entries)].entry.timestamp = now

\* C28: set on a key that is already stored leaves the number of entries
\* unchanged, stores the new entry under that key, and removes no other key.
C28_ResetKeepsOthers ==
    [][(lastOp'.op = "set" /\ now' = now /\ MapHas(entries, lastOp'.key))
         => /\ Len(entries') = Len(entries)
            /\ getStale(entries', lastOp'.key) = Some(lastOp'.entry)
            /\ \A i \in 1..Len(entries) : MapHas(entries', entries[i].key)
            /\ \A i \in 1..Len(entries) :
                  entries[i].key # lastOp'.key
                     => getStale(entries', entries[i].key) = Some(entries[i].entry)
            /\ lastOp'.replaced /\ lastOp'.evicted = 0]_vars

\* a cache filled to its capacity has had the entry of its oldest key
\* replaced by one with another timestamp
C28_Witness ==
    /\ lastOp.op = "set" /\ lastOp.replaced
    /\ Len(entries) = maxSize /\ maxSize > 1
    /\ lastOp.entry.timestamp > 0
    /\ Len(lastOp.run) = maxSize
    /\ \A i \in 1..Len(entries) : entries[i].key = lastOp.run[i]

\* the stored keys in Map iteration order
KeyOrder(es) == [i \in 1..Len(es) |-> es[i].key]

\* C26: the cache behaves as an LRU.  After every set, get and lookup the Map
\* holds the stored keys in the order of their last use (a set or a fresh hit
\* of get or lookup), and the key just set or just hit is the most recently
\* used one; and a set never removes a key while a key that was used less
\* recently (other than the key being set) stays in the cache.
C26_BehavesAsLru ==
    /\ [](lastOp.op \in {"set", "lookup", "get"}
            => /\ KeyOrder(entries) = lastOp.recency
               /\ (lastOp.op = "set" \/ lastOp.fresh)
                     => /\ entries # << >>
                        /\ entries[Len(entries)].key = lastOp.key)
    /\ [][lastOp'.op = "set"
            => LET R == Recency(lastOp) IN
               \A i, j \in 1..Len(R) :
                  (/\ i < j
                   /\ R[i] # lastOp'.key /\ R[j] # lastOp'.key
                   /\ ~MapHas(entries', R[j]))
                  => ~MapHas(entries', R[i])]_vars

\* a set that came right after a read has evicted a key and kept another
C26_Witness ==
    /\ lastOp.op = "set"
    /\ lastOp.evicted > 0
    /\ Len(lastOp.run) = 1
    /\ Len(entries) >= 2


----------------------------------------------------------------------------
(* FetchPoolScraperAdapter:                                                *)
(*   src/src/adapters/fetch-pool/fetch-pool.adapter.ts (1-313)             *)
(*   request helpers: src/unnamed/part_006                                 *)
(*                                                                         *)
(* fetches[f] is the closure () => executeFetch(url, options, startTime,   *)
(* staleEntry) handed to originQueue.enqueue; it is task f of oq.tasks.    *)
(* A settled fetch keeps no data: its outcome is handed to its callers in  *)
(* the step that settles it and is shown in lastOp.                        *)

STALE_PENDING_THRESHOLD_MS == 30000

\* granularity of the adapter specification's clock
ClockStep == STALE_PENDING_THRESHOLD_MS

\* cacheTTL option used by the adapter specification (ms)
AdapterTtl == ClockStep

Urls == {"https://a.test/1", "https://a.test/2"}

\* strings that new URL(url) rejects with a TypeError
BadUrls == {"not a url"}

AllUrls == Urls \cup BadUrls

\* new URL(url) returns
UrlParses(url) == url \notin BadUrls

\* new URL(url).origin
UrlOrigin(url) == "oA"

\* What the transport may answer: status, validators, Cache-Control max-age
\* (seconds) and body
Response(status, etag, lastModified, maxAge, body) ==
    [status |-> status, etag |-> etag, lastModified |-> lastModified,
     maxAge |-> maxAge, body |-> body]

Responses ==
    { Response(200, Some("etag1"), None, Some(30), "body1"),
      Response(200, None, Some("date1"), None, "body2"),
      Response(304, None, None, None, ""),
      Response(404, None, None, None, ""),
      Response(500, None, None, None, "") }

\* the rejection of fetch() once its AbortController has been aborted
AbortError == "This operation was aborted"

TransportErrors == {"Failed to fetch", AbortError}

\* response.ok
ResponseOkBelow500(r) == r.status < 500

ResponseOk(r) == r.status >= 200 /\ r.status <= 299

\* parseCacheControlMaxAge
parseCacheControlMaxAge(r) ==
    IF ~Has(r.maxAge) THEN None
    ELSE IF Val(r.maxAge) > 0 THEN Some(Val(r.maxAge) * 1000) ELSE None

\* parseResponse: the ScrapeResult built from the response
parseResponse(r, url) == [url |-> url, html |-> r.body, statusCode |-> r.status]

\* buildHeaders: the conditional headers (the fixed headers are left out)
buildHeadersNoDate(stale) ==
    [ifNoneMatch |-> IF Has(stale) THEN Val(stale).etag ELSE None,
     ifModifiedSince |-> None]

buildHeaders(stale) ==
    [ifNoneMatch |-> IF Has(stale) THEN Val(stale).etag ELSE None,
     ifModifiedSince |-> IF Has(stale) THEN Val(stale).lastModified ELSE None]

\* a settled promise of scrape / executeFetch
Resolved(result, cached) ==
    [kind |-> "resolved", result |-> Some(result), cached |-> cached, error |-> ""]
Rejected(error) ==
    [kind |-> "rejected", result |-> None, cached |-> FALSE, error |-> error]

\* cachedResponse
cachedResponse(data) == Resolved(data, TRUE)

\* pendingRequests.get(url)
dedupNever(pr, url) == None

dedup(pr, url) == IF url \in DOMAIN pr THEN pr[url] ELSE None

\* the 304 branch of executeFetch: what it leaves in the cache
notModifiedRefresh(es, url, stale, n) ==
    MapSet(es, url, [stale EXCEPT !.timestamp = n])

notModified(es, url, stale, n) == es

\* The onProgress option of a call: "none" when the caller passes no sink,
\* "quiet" for a sink that returns, or the phase at which the sink throws.
Phases == {"starting", "extracting", "complete"}

Sinks == {"none", "quiet"} \cup Phases

\* the error a throwing sink throws
SinkError == "sink failed"

emitLatest(events, sink, phase) == IF sink = "none" THEN events ELSE <<phase>>

\* onProgress?.({phase, ...}): the sink is called when there is one, and the
\* call throws when the sink throws at this phase
emit(events, sink, phase) ==
    IF sink = "none" THEN events ELSE Append(events, phase)

throws(sink, phase) == sink = phase

\* the closure handed to enqueue, and its first caller
FetchTask(url, useCache, stale, sink) ==
    [url |-> url, useCache |-> useCache, stale |-> stale, stage |-> "queued",
     headers |-> None, response |-> None, callers |-> 1,
     abortedAtStart |-> FALSE, timedOut |-> FALSE, rejected |-> FALSE,
     sink |-> sink, events |-> << >>]

\* a fetch whose promise has settled: only its URL, whether it rejected and,
\* if so, how many callers it rejected still matter
SettledFetch(url, kind, callers) ==
    [url |-> url, useCache |-> FALSE, stale |-> None, stage |-> "settled",
     headers |-> None, response |-> None,
     callers |-> IF kind = "rejected" THEN callers ELSE 0,
     abortedAtStart |-> FALSE, timedOut |-> FALSE,
     rejected |-> kind = "rejected", sink |-> "none", events |-> << >>]

\* executeFetch up to its first await, for every task the queue has just
\* started: buildHeaders(stale) and the fetch() call of fetchWithTimeout
startFetches(fs, q) ==
    [f \in 1..Len(fs) |->
        IF fs[f].stage = "queued" /\ q.tasks[f].status = "running"
        THEN IF throws(fs[f].sink, "starting")
             THEN \* the "starting" event throws before buildHeaders
                  [fs[f] EXCEPT !.stage = "threw",
                                !.events = emit(@, fs[f].sink, "starting")]
             ELSE [fs[f] EXCEPT !.stage = "transport",
                                !.events = emit(@, fs[f].sink, "starting"),
                                !.abortedAtStart = aborted,
                                !.headers = Some(buildHeaders(fs[f].stale))]
        ELSE fs[f]]

\* fetchWithTimeout: the "abort" listener it registered on the caller's signal
\* has fired and aborted the controller of the transport call.  A signal that
\* was already aborted when the listener was registered never fires it.
abortForwarded(fetch) ==
    fetch.stage = "transport" /\ aborted /\ ~fetch.abortedAtStart

\* fetchWithTimeout: controller.abort() has been called for the transport call
\* of this fetch, by the timer or by the listener on the caller's signal
controllerAbortedBySignalOnly(fetch) == abortForwarded(fetch)

controllerAborted(fetch) ==
    fetch.stage = "transport" /\ (fetch.timedOut \/ abortForwarded(fetch))

\* the fetches of `url` whose promise has not settled
InFlight(fs, url) == {f \in 1..Len(fs) : fs[f].url = url /\ fs[f].stage # "settled"}

\* scrape(url, {cache: useCache, signal}) up to its first await: how the call
\* is served, the promise it returns and the state it leaves
ScrapeStep(via, fetch, outcome, es, q, pr, fs) ==
    [via |-> via, fetch |-> fetch, outcome |-> outcome,
     entries |-> es, oq |-> q, pendingRequests |-> pr, fetches |-> fs]

\* scrape: signal?.aborted
signalIgnored(a) == FALSE

signalAborted(a) == a

\* scrape: useCache ? this.cache.lookup(url).stale : undefined
staleAlways(useCache, found) == found.stale

staleFor(useCache, found) == IF useCache THEN found.stale ELSE None

\* the adapter's cache, queue, trackers and fetches as they are now
Here ==
    [entries |-> entries, oq |-> oq, pendingRequests |-> pendingRequests,
     fetches |-> fetches]

scrape(w, url, useCache, sink) ==
    LET pending == dedup(w.pendingRequests, url)
        found == lookup(w.entries, ttl, now, url)
    IN
    IF Has(pending)
    THEN \* return pending.promise
         ScrapeStep("attached", Val(pending).fetch, None, w.entries, w.oq,
                    w.pendingRequests,
                    [w.fetches EXCEPT ![Val(pending).fetch].callers = @ + 1])
    ELSE IF useCache /\ Has(found.fresh)
    THEN \* fresh hit: recency bumped, the "complete" event, then
         \* cachedResponse(fresh.data)
         ScrapeStep("hit", 0,
                    Some(IF throws(sink, "complete") THEN Rejected(SinkError)
                         ELSE cachedResponse(Val(found.fresh).data)),
                    found.entries, w.oq, w.pendingRequests, w.fetches)
    ELSE IF signalAborted(aborted)
    THEN \* throw new Error("Scrape aborted")
         ScrapeStep("aborted", 0, Some(Rejected("Scrape aborted")),
                    w.entries, w.oq, w.pendingRequests, w.fetches)
    ELSE IF ~UrlParses(url)
    THEN \* new URL(url) throws: the promise of scrape rejects
         ScrapeStep("invalid", 0, Some(Rejected("Invalid URL")),
                    w.entries, w.oq, w.pendingRequests, w.fetches)
    ELSE \* enqueue executeFetch with the stale entry, then record the tracker
         LET stale == staleFor(useCache, found)
             q1 == enqueue(w.oq, maxConcurrency, UrlOrigin(url))
             f == Len(w.fetches) + 1
         IN  ScrapeStep("started", f, None, w.entries, q1,
                        [w.pendingRequests EXCEPT
                            ![url] = Some([fetch |-> f, startedAt |-> now])],
                        startFetches(Append(w.fetches,
                                            FetchTask(url, useCache, stale, sink)),
                                     q1))

\* the newest fetch of `url` has settled, with a rejection
LastFetchFailed(fs, url) ==
    \E f \in 1..Len(fs) :
        /\ fs[f].url = url /\ fs[f].stage = "settled" /\ fs[f].rejected
        /\ \A g \in (f + 1)..Len(fs) : fs[g].url # url

\* what a call of scrape found when it was made, and how it was served
CallRecord(url, useCache, sink, r) ==
    [op |-> "scrape", url |-> url, useCache |-> useCache, sink |-> sink,
     events |-> IF r.via = "hit" THEN emit(<< >>, sink, "complete") ELSE << >>,
     via |-> r.via, fetch |-> r.fetch, outcome |-> r.outcome,
     trackerAtCall |-> IF url \in DOMAIN pendingRequests
                       THEN IF Has(pendingRequests[url])
                            THEN Some(Val(pendingRequests[url]).fetch)
                            ELSE None
                       ELSE None,
     inFlightAtCall |-> InFlight(fetches, url),
     entryAtCall |-> getStale(entries, url),
     ageAtCall |-> IF MapHas(entries, url)
                   THEN AgeVsTtl(entries[MapGet(entries, url)].entry, ttl, now)
                   ELSE "absent",
     abortedAtCall |-> aborted,
     afterFailure |-> LastFetchFailed(fetches, url),
     started |-> Len(r.fetches) - Len(fetches),
     stale |-> IF r.via = "started" THEN r.fetches[r.fetch].stale ELSE None]

\* the bounds of a run allow this step of scrape
ScrapeInBounds(url, r) ==
    /\ r.via = "started" =>
          /\ Len(fetches) < MaxFetches
          /\ Has(oq.origins[UrlOrigin(url)]) \/ Len(oq.states) < MaxStates
    /\ r.via = "attached" => fetches[r.fetch].callers < MaxCallers

InitAdapter ==
    /\ now = 0
    /\ maxSize = 1
    /\ ttl = AdapterTtl
    /\ entries = << >>
    /\ lastOp = NoOp
    /\ maxConcurrency \in 1..MaxK
    /\ oq = EmptyQueue
    /\ pendingRequests = [u \in Urls |-> None]
    /\ fetches = << >>
    /\ aborted = FALSE

\* ---- scrapeMany and scrapeWithRetry ----

\* one call of scrapeWithRetry: its url, the loop variables attempt and
\* lastError, where it stands, the fetch whose promise its last attempt awaited,
\* and how many attempts it has made and seen fail
RetryLoop(url) ==
    [url |-> url, attempt |-> 0, lastError |-> None, pc |-> "start",
     fetch |-> 0, made |-> 0, fails |-> 0]

\* one call of scrapeMany: its options, its loops (one per position of urls)
\* and the two maps it returns
BatchRun(urls, retries, useCache) ==
    [retries |-> retries, useCache |-> useCache,
     loops |-> [i \in 1..Len(urls) |-> RetryLoop(urls[i])],
     results |-> [u \in AllUrls |-> None],
     failed |-> [u \in AllUrls |-> None]]

\* the loop condition of scrapeWithRetry
loopContinuesBelow(attempt, retries) == attempt < retries

loopContinues(attempt, retries) == attempt <= retries

\* ctx.results.set(url, response.result)
recordSuccessNowhere(results, url, result) == results

recordSuccess(results, url, result) == [results EXCEPT ![url] = Some(result)]

\* if (lastError) ctx.failed.set(url, lastError)
recordFailureAlways(failed, url, lastError) ==
    [failed EXCEPT ![url] = IF Has(lastError) THEN lastError ELSE Some("null")]

recordFailure(failed, url, lastError) ==
    IF Has(lastError) THEN [failed EXCEPT ![url] = lastError] ELSE failed

\* loop i of run b is left (condition false, or break): pc tells which
leaveAll(b, i, pc) ==
    [b EXCEPT !.loops = [j \in 1..Len(b.loops) |-> [b.loops[j] EXCEPT !.pc = pc]],
              !.failed = recordFailure(@, b.loops[i].url, b.loops[i].lastError)]

leave(b, i, pc) ==
    [b EXCEPT !.loops[i].pc = pc,
              !.failed = recordFailure(@, b.loops[i].url, b.loops[i].lastError)]

\* the awaited scrape of loop i resolved
resolved(b, i, result) ==
    [b EXCEPT !.loops[i].pc = "ok",
              !.results = recordSuccess(@, b.loops[i].url, result)]

\* the awaited scrape of loop i rejected: the catch block, then either the
\* sleep before the next attempt or attempt++ and the loop condition
caught(b, i, error) ==
    LET l == b.loops[i]
        b1 == [b EXCEPT !.loops[i].lastError = Some(error),
                        !.loops[i].fails = @ + 1]
    IN  IF l.attempt < b.retries \/ loopContinues(l.attempt + 1, b.retries)
        THEN [b1 EXCEPT !.loops[i].pc = "sleep"]
        ELSE leave([b1 EXCEPT !.loops[i].attempt = @ + 1], i, "exhausted")

\* the adapter together with a run of scrapeMany
World(w, b) ==
    [entries |-> w.entries, oq |-> w.oq, pendingRequests |-> w.pendingRequests,
     fetches |-> w.fetches, batch |-> b]

\* loop i at the top of an iteration: the loop condition, the cancellation
\* check, then the call of scrape up to its await
iterate(w, i) ==
    LET b == w.batch
        l == b.loops[i]
    IN
    IF ~loopContinues(l.attempt, b.retries)
    THEN World(w, leave(b, i, "exhausted"))
    ELSE IF aborted
    THEN World(w, leave(b, i, "cancelled"))
    ELSE LET r == scrape(w, l.url, b.useCache, "none")
             b1 == [b EXCEPT !.loops[i].made = @ + 1,
                             !.loops[i].fetch = r.fetch]
         IN  IF r.via \in {"attached", "started"}
             THEN World(r, [b1 EXCEPT !.loops[i].pc = "await"])
             ELSE IF Val(r.outcome).kind = "resolved"
             THEN World(r, resolved(b1, i, Val(Val(r.outcome).result)))
             ELSE World(r, caught(b1, i, Val(r.outcome).error))

\* urls.map(url => this.scrapeWithRetry(...)): every loop runs, in list order,
\* up to its first await
RECURSIVE startLoops(_, _)
startLoops(w, i) ==
    IF i > Len(w.batch.loops) THEN w ELSE startLoops(iterate(w, i), i + 1)

scrapeMany(w, urls, retries, useCache) ==
    startLoops(World(w, BatchRun(urls, retries, useCache)), 1)

\* the promise of fetch f settles with outcome o: every loop awaiting it goes on
RECURSIVE deliverFrom(_, _, _, _)
deliverFrom(b, f, o, i) ==
    IF i > Len(b.loops) THEN b
    ELSE IF b.loops[i].pc = "await" /\ b.loops[i].fetch = f
    THEN deliverFrom(IF o.kind = "resolved"
                     THEN resolved(b, i, Val(o.result))
                     ELSE caught(b, i, o.error), f, o, i + 1)
    ELSE deliverFrom(b, f, o, i + 1)

deliver(bt, f, o) == IF Has(bt) THEN Some(deliverFrom(Val(bt), f, o, 1)) ELSE bt

\* executeFetch of f has settled with outcome o: the queue releases the slot
\* and scrape's finally deletes the tracker of the URL
settleFetchKeepTracker(f, o) ==
    LET q1 == settle(oq, f, o.kind) IN
    /\ oq' = q1
    /\ fetches' = startFetches([fetches EXCEPT
                                  ![f] = SettledFetch(fetches[f].url, o.kind,
                                                      fetches[f].callers)], q1)
    /\ pendingRequests' = pendingRequests
    /\ batch' = deliver(batch, f, o)

settleFetch(f, o) ==
    LET q1 == settle(oq, f, o.kind) IN
    /\ oq' = q1
    /\ fetches' = startFetches([fetches EXCEPT
                                  ![f] = SettledFetch(fetches[f].url, o.kind,
                                                      fetches[f].callers)], q1)
    /\ pendingRequests' = [pendingRequests EXCEPT ![fetches[f].url] = None]
    /\ batch' = deliver(batch, f, o)

\* what the step that settled fetch f did
SettleRecord(f, o, status, events) ==
    [op |-> "settle", fetch |-> f, url |-> fetches[f].url, outcome |-> o,
     sink |-> fetches[f].sink, events |-> events,
     status |-> status, stale |-> fetches[f].stale,
     useCache |-> fetches[f].useCache, callers |-> fetches[f].callers,
     entriesBefore |-> entries, parsed |-> fetches[f].stage = "parsing",
     maxAge |-> IF Has(fetches[f].response)
                THEN Val(fetches[f].response).maxAge ELSE None,
     timedOut |-> fetches[f].timedOut, forwarded |-> abortForwarded(fetches[f])]

\* a caller calls adapter.scrape(url, {cache: useCache, signal, onProgress})
AScrapeWith(url, useCache, sink) ==
    LET r == scrape(Here, url, useCache, sink) IN
    /\ ScrapeInBounds(url, r)
    /\ entries' = r.entries
    /\ oq' = r.oq
    /\ pendingRequests' = r.pendingRequests
    /\ fetches' = r.fetches
    /\ lastOp' = CallRecord(url, useCache, sink, r)
    /\ UNCHANGED <<now, maxSize, ttl, maxConcurrency, aborted, batch>>

\* the transport answers the fetch() of f: executeFetch classifies the response
ARespond(f, r) ==
    /\ f \in 1..Len(fetches)
    /\ fetches[f].stage = "transport"
    /\ ~controllerAborted(fetches[f])
    /\ IF r.status = 304 /\ Has(fetches[f].stale)
       THEN \* the "complete" event, then cachedResponse(stale.data)
            LET o == IF throws(fetches[f].sink, "complete")
                     THEN Rejected(SinkError)
                     ELSE cachedResponse(Val(fetches[f].stale).data)
            IN
            /\ entries' = notModified(entries, fetches[f].url,
                                      Val(fetches[f].stale), now)
            /\ settleFetch(f, o)
            /\ lastOp' = SettleRecord(f, o, r.status,
                                      emit(fetches[f].events, fetches[f].sink,
                                           "complete"))
       ELSE IF ~ResponseOk(r)
       THEN LET o == Rejected("HTTP " \o ToString(r.status)) IN
            /\ settleFetch(f, o)
            /\ lastOp' = SettleRecord(f, o, r.status, fetches[f].events)
            /\ UNCHANGED entries
       ELSE IF throws(fetches[f].sink, "extracting")
       THEN \* the "extracting" event throws before parseResponse
            /\ settleFetch(f, Rejected(SinkError))
            /\ lastOp' = SettleRecord(f, Rejected(SinkError), r.status,
                                      emit(fetches[f].events, fetches[f].sink,
                                           "extracting"))
            /\ UNCHANGED entries
       ELSE /\ fetches' = [fetches EXCEPT
                             ![f].stage = "parsing",
                             ![f].response = Some(r),
                             ![f].events = emit(@, fetches[f].sink, "extracting")]
            /\ lastOp' = NoOp
            /\ UNCHANGED <<entries, oq, pendingRequests, batch>>
    /\ UNCHANGED <<now, maxSize, ttl, maxConcurrency, aborted>>

\* parseResponse of f returns: the result is stored (when caching) with the
\* validators and max-age of the response, the "complete" event is sent, and
\* executeFetch resolves
AParsed(f) ==
    /\ f \in 1..Len(fetches)
    /\ fetches[f].stage = "parsing"
    /\ LET r == Val(fetches[f].response)
           url == fetches[f].url
           result == parseResponse(r, url)
       IN  /\ entries' = IF fetches[f].useCache
                         THEN set(entries, maxSize, url,
                                  CacheEntry(result, now, r.etag, r.lastModified,
                                             parseCacheControlMaxAge(r)))
                         ELSE entries
           /\ LET o == IF throws(fetches[f].sink, "complete")
                        THEN Rejected(SinkError)
                        ELSE Resolved(result, FALSE)
              IN  /\ settleFetch(f, o)
                  /\ lastOp' = SettleRecord(f, o, r.status,
                                            emit(fetches[f].events,
                                                 fetches[f].sink, "complete"))
    /\ UNCHANGED <<now, maxSize, ttl, maxConcurrency, aborted>>

\* the fetch() of f rejects: network failure, or the AbortController of
\* fetchWithTimeout fired (timeout or forwarded abort)
ATransportFail(f, error) ==
    /\ f \in 1..Len(fetches)
    /\ fetches[f].stage = "transport"
    /\ (error = AbortError) = controllerAborted(fetches[f])
    /\ settleFetch(f, Rejected(error))
    /\ lastOp' = SettleRecord(f, Rejected(error), 0, fetches[f].events)
    /\ UNCHANGED <<now, cacheVars, maxConcurrency, aborted>>

\* executeFetch of f threw at its "starting" event: its promise rejects
ASinkThrew(f) ==
    /\ f \in 1..Len(fetches)
    /\ fetches[f].stage = "threw"
    /\ settleFetch(f, Rejected(SinkError))
    /\ lastOp' = SettleRecord(f, Rejected(SinkError), 0, fetches[f].events)
    /\ UNCHANGED <<now, cacheVars, maxConcurrency, aborted>>

\* the setTimeout callback of fetchWithTimeout runs for f: controller.abort().
\* The timeout option is any positive number of ms, so the timer may fire
\* between two steps of the clock; the finally of fetchWithTimeout clears it
\* once the transport call has settled.
ATimeout(f) ==
    /\ f \in 1..Len(fetches)
    /\ fetches[f].stage = "transport"
    /\ ~fetches[f].timedOut
    /\ fetches' = [fetches EXCEPT ![f].timedOut = TRUE]
    /\ lastOp' = NoOp
    /\ UNCHANGED <<now, cacheVars, maxConcurrency, oq, pendingRequests,
                   aborted, batch>>

\* the dequeue microtask queued by a promoted fetch's completion runs
AMicrotask ==
    /\ oq.microtasks # << >>
    /\ oq' = runMicrotask(oq)
    /\ fetches' = startFetches(fetches, oq')
    /\ lastOp' = NoOp
    /\ UNCHANGED <<now, cacheVars, maxConcurrency, pendingRequests, aborted, batch>>

\* time passes
ATick ==
    /\ now < MaxTicks * ClockStep
    /\ now' = now + ClockStep
    /\ lastOp' = NoOp
    /\ UNCHANGED <<cacheVars, maxConcurrency, oq, pendingRequests,
                   fetches, aborted, batch>>

\* the setInterval callback of startCleanupTimer
sweepAtThreshold(pr, n) ==
    [u \in DOMAIN pr |->
        IF Has(pr[u]) /\ n - Val(pr[u]).startedAt >= STALE_PENDING_THRESHOLD_MS
        THEN None ELSE pr[u]]

sweep(pr, n) ==
    [u \in DOMAIN pr |->
        IF Has(pr[u]) /\ n - Val(pr[u]).startedAt > STALE_PENDING_THRESHOLD_MS
        THEN None ELSE pr[u]]

ASweep ==
    /\ now > 0 /\ now % STALE_PENDING_THRESHOLD_MS = 0
    /\ sweep(pendingRequests, now) # pendingRequests
    /\ pendingRequests' = sweep(pendingRequests, now)
    /\ lastOp' = NoOp
    /\ UNCHANGED <<now, cacheVars, maxConcurrency, oq, fetches, aborted, batch>>

\* the owner of the AbortController calls abort()
AAbort ==
    /\ ~aborted
    /\ aborted' = TRUE
    /\ lastOp' = NoOp
    /\ UNCHANGED <<now, cacheVars, maxConcurrency, oq, pendingRequests,
                   fetches, batch>>

\* adapter.clearCache()
AClearCache ==
    /\ entries # << >>
    /\ entries' = clear(entries)
    /\ lastOp' = NoOp
    /\ UNCHANGED <<now, maxSize, ttl, maxConcurrency, oq,
                   pendingRequests, fetches, aborted, batch>>

Init == InitAdapter /\ BatchUnused

Next ==
    \/ \E url \in Urls, useCache \in BOOLEAN : AScrapeWith(url, useCache, "none")
    \/ \E f \in 1..MaxFetches, r \in Responses : ARespond(f, r)
    \/ \E f \in 1..MaxFetches : AParsed(f)
    \/ \E f \in 1..MaxFetches, e \in TransportErrors : ATransportFail(f, e)
    \/ \E f \in 1..MaxFetches : ATimeout(f)
    \/ AMicrotask
    \/ ATick
    \/ ASweep
    \/ AAbort
    \/ AClearCache

Spec == Init /\ [][Next]_vars

\* ---- the adapter called with progress sinks ----
\* The callers leave caching enabled and pass an onProgress sink that returns
\* or that throws at one phase; their signals are never aborted and no
\* transport call times out.

NextSink ==
    \/ \E url \in Urls, sink \in Sinks \ {"none"} : AScrapeWith(url, TRUE, sink)
    \/ \E f \in 1..MaxFetches, r \in Responses : ARespond(f, r)
    \/ \E f \in 1..MaxFetches : AParsed(f)
    \/ \E f \in 1..MaxFetches : ATransportFail(f, "Failed to fetch")
    \/ \E f \in 1..MaxFetches : ASinkThrew(f)
    \/ AMicrotask
    \/ ATick

SpecSink == Init /\ [][NextSink]_vars

\* ---- the adapter answered with Cache-Control max-age ----
\* Every answer is a 200 that declares max-age=0, max-age=1, max-age=30 or no
\* max-age; the callers leave caching enabled.

MaxAgeResponses ==
    { Response(200, None, None, Some(0), "body0"),
      Response(200, None, None, Some(1), "body3"),
      Response(200, Some("etag1"), None, Some(30), "body1"),
      Response(200, None, Some("date1"), None, "body2") }

NextMaxAge ==
    \/ \E url \in Urls : AScrapeWith(url, TRUE, "none")
    \/ \E f \in 1..MaxFetches, r \in MaxAgeResponses : ARespond(f, r)
    \/ \E f \in 1..MaxFetches : AParsed(f)
    \/ AMicrotask
    \/ ATick

SpecMaxAge == Init /\ [][NextMaxAge]_vars

\* C39: the entry stored from a response that declares max-age = N seconds
\* (N >= 0) has the TTL N * 1000 ms in place of the default TTL; the entry
\* stored from a response without max-age has no override and the default TTL.
C39_MaxAgeIsTtl ==
    (lastOp.op = "settle" /\ lastOp.parsed /\ lastOp.useCache)
        => LET e == getStale(entries, lastOp.url) IN
           /\ Has(e)
           /\ Val(e).ttlOverride = IF Has(lastOp.maxAge)
                                   THEN Some(Val(lastOp.maxAge) * 1000)
                                   ELSE None
           /\ effectiveTtl(Val(e), ttl) = IF Has(lastOp.maxAge)
                                          THEN Val(lastOp.maxAge) * 1000
                                          ELSE ttl

\* what does hold: the same for every declared N >= 1 and for a response
\* without max-age
C39_PositiveMaxAgeIsTtl ==
    (/\ lastOp.op = "settle" /\ lastOp.parsed /\ lastOp.useCache
     /\ lastOp.maxAge # Some(0))
        => LET e == getStale(entries, lastOp.url) IN
           /\ Has(e)
           /\ Val(e).ttlOverride = IF Has(lastOp.maxAge)
                                   THEN Some(Val(lastOp.maxAge) * 1000)
                                   ELSE None
           /\ effectiveTtl(Val(e), ttl) = IF Has(lastOp.maxAge)
                                          THEN Val(lastOp.maxAge) * 1000
                                          ELSE ttl

C5_FreshHit ==
    (lastOp.op = "scrape" /\ lastOp.useCache /\ lastOp.ageAtCall = "below")
        => /\ lastOp.via = "hit"
           /\ lastOp.started = 0
           /\ lastOp.outcome = Some(cachedResponse(Val(lastOp.entryAtCall).data))

\* every transport call carries exactly the validators of the stale entry its
\* fetch was started with: If-None-Match = etag, If-Modified-Since = lastModified,
\* each only when present, and neither without a stale entry
ConditionalHeaders ==
    \A f \in 1..Len(fetches) :
        Has(fetches[f].headers) =>
            LET h == Val(fetches[f].headers)
                stale == fetches[f].stale
            IN  /\ h.ifNoneMatch = IF Has(stale) THEN Val(stale).etag ELSE None
                /\ h.ifModifiedSince =
                       IF Has(stale) THEN Val(stale).lastModified ELSE None

\* C7 as stated: every scrape with caching enabled of a URL whose entry is
\* expired starts a new transport call with the validators of that entry.
C7_StaleStartsConditional ==
    /\ (lastOp.op = "scrape" /\ lastOp.useCache /\ lastOp.ageAtCall = "above")
          => /\ lastOp.via = "started"
             /\ lastOp.stale = lastOp.entryAtCall
    /\ ConditionalHeaders

\* C7 amended: a scrape with caching enabled, whose signal is not aborted, of a
\* URL that has no tracker in pendingRequests and whose entry is past its TTL
\* starts a new fetch with that entry as stale entry; the transport call of a
\* fetch carries the validators of its stale entry, each only when present; a
\* fetch started with no entry stored, or with caching disabled, has no stale
\* entry and sends neither header.
C7_StaleStartsConditionalUnlessJoined ==
    /\ (/\ lastOp.op = "scrape" /\ lastOp.useCache /\ lastOp.ageAtCall = "above"
        /\ ~Has(lastOp.trackerAtCall) /\ ~lastOp.abortedAtCall)
          => /\ lastOp.via = "started"
             /\ lastOp.started = 1
             /\ lastOp.stale = lastOp.entryAtCall
    /\ (/\ lastOp.op = "scrape" /\ lastOp.via = "started"
        /\ (~lastOp.useCache \/ lastOp.ageAtCall = "absent"))
          => lastOp.stale = None
    /\ ConditionalHeaders

\* a revalidation is on the wire with If-Modified-Since, another with
\* If-None-Match
C7_Witness ==
    /\ lastOp.op = "scrape" /\ lastOp.via = "started" /\ lastOp.ageAtCall = "above"
    /\ fetches[lastOp.fetch].stage = "transport"
    /\ Has(Val(fetches[lastOp.fetch].headers).ifModifiedSince)
    /\ ~Has(Val(fetches[lastOp.fetch].headers).ifNoneMatch)

\* C8: when the transport answers 304 and the fetch has a stale entry, the
\* fetch resolves with that entry's payload and cached = true, nothing is
\* parsed and the cache is left exactly as it was.
C8_NotModified ==
    (lastOp.op = "settle" /\ lastOp.status = 304 /\ Has(lastOp.stale))
        => /\ lastOp.outcome = cachedResponse(Val(lastOp.stale).data)
           /\ ~lastOp.parsed
           /\ entries = lastOp.entriesBefore

\* a 304 has just answered a revalidation whose stale entry is still stored
C8_Witness ==
    /\ lastOp.op = "settle" /\ lastOp.status = 304 /\ Has(lastOp.stale)
    /\ lastOp.useCache
    /\ getStale(entries, lastOp.url) = lastOp.stale

\* C13 as stated: scrape called with a signal that is already aborted, no
\* fetch of the URL having started, rejects and causes no transport call.
C13_AbortedRejects ==
    (/\ lastOp.op = "scrape" /\ lastOp.abortedAtCall
     /\ lastOp.inFlightAtCall = {} /\ ~Has(lastOp.trackerAtCall))
        => /\ lastOp.via = "aborted"
           /\ lastOp.outcome = Some(Rejected("Scrape aborted"))
           /\ lastOp.started = 0

\* C13 amended: scrape called with a signal that is already aborted starts no
\* fetch and no transport call; it rejects with "Scrape aborted" when the URL
\* has no tracker in pendingRequests and the cache does not serve the call
\* (caching disabled, or no entry that lookup reports fresh).  With a tracker
\* it is handed the promise of the tracked fetch, with a fresh entry it
\* resolves from the cache.
C13_AbortedStartsNothing ==
    (lastOp.op = "scrape" /\ lastOp.abortedAtCall)
        => /\ lastOp.started = 0
           /\ lastOp.via # "started"
           /\ (/\ ~Has(lastOp.trackerAtCall)
               /\ ~(lastOp.useCache /\ lastOp.ageAtCall \in {"below", "equal"}))
                 => /\ lastOp.via = "aborted"
                    /\ lastOp.outcome = Some(Rejected("Scrape aborted"))
           /\ Has(lastOp.trackerAtCall) => lastOp.via = "attached"

\* a caching scrape of a URL with an expired entry was made with the signal
\* aborted, and was rejected
C13_Witness ==
    /\ lastOp.op = "scrape" /\ lastOp.abortedAtCall
    /\ lastOp.useCache /\ lastOp.ageAtCall = "above"
    /\ lastOp.via = "aborted"

\* C14: once the signal is asserted no transport call is initiated, not even
\* for a fetch that was waiting in the origin's pending queue and is promoted
\* later: no fetch is on the wire or being parsed whose transport call began
\* with the signal already aborted.
C14_NoTransportAfterAbort ==
    \A f \in 1..Len(fetches) :
        fetches[f].stage \in {"transport", "parsing"} => ~fetches[f].abortedAtStart

\* C15: a fetch whose signal was asserted before its cache store writes
\* nothing to the cache: the step in which such a fetch settles leaves the
\* cache as it was.
C15_NoStoreAfterAbort ==
    (lastOp.op = "settle" /\ aborted) => entries = lastOp.entriesBefore

\* the step in which a fetch fails settles its one promise, shared by the
\* caller that started it and the callers attached to it, with the error, and
\* leaves no tracker for its URL; no tracker ever names a settled fetch
FailureSettlesAll ==
    /\ (lastOp.op = "settle" /\ lastOp.outcome.kind = "rejected")
          => /\ lastOp.callers >= 1
             /\ fetches[lastOp.fetch].stage = "settled"
             /\ fetches[lastOp.fetch].rejected
             /\ ~Has(pendingRequests[lastOp.url])
    /\ \A u \in Urls :
          Has(pendingRequests[u])
              => fetches[Val(pendingRequests[u]).fetch].stage # "settled"

\* C20 as stated: a failed fetch rejects all its callers with its error and its
\* tracker is removed, so a scrape of the URL made after the failure starts a
\* new transport call.
C20_FailureThenNewFetch ==
    /\ FailureSettlesAll
    /\ (lastOp.op = "scrape" /\ lastOp.afterFailure)
          => lastOp.via = "started" /\ lastOp.started = 1

\* C20 amended: ... so a scrape of the URL made after the failure is never
\* attached to the failed fetch; it starts a new fetch unless a fresh cache
\* entry serves it or its signal is already aborted.
C20_FailureThenNewFetchUnlessServed ==
    /\ FailureSettlesAll
    /\ (lastOp.op = "scrape" /\ lastOp.afterFailure)
          => /\ lastOp.via # "attached"
             /\ (/\ ~lastOp.abortedAtCall
                 /\ ~(lastOp.useCache /\ lastOp.ageAtCall \in {"below", "equal"}))
                   => lastOp.via = "started" /\ lastOp.started = 1

\* a fetch joined by a second caller failed, and the next scrape of its URL
\* has started a new fetch
C20_Witness ==
    /\ lastOp.op = "scrape" /\ lastOp.afterFailure /\ lastOp.via = "started"
    /\ fetches[lastOp.fetch].stage = "transport"
    /\ \E f \in 1..Len(fetches) :
          /\ f < lastOp.fetch /\ fetches[f].url = lastOp.url
          /\ fetches[f].rejected /\ fetches[f].callers >= 2

\* C21: when the transport answers with a status outside 200..299 (a 4xx, a
\* 5xx, or a 304 to a fetch that holds no stale entry), the fetch rejects
\* with the error "HTTP <status>" for every caller of it, parseResponse has
\* not run and the cache is as it was before the step.
C21_HttpErrorRejects ==
    (/\ lastOp.op = "settle"
     /\ lastOp.status # 0
     /\ ~(lastOp.status >= 200 /\ lastOp.status <= 299)
     /\ ~(lastOp.status = 304 /\ Has(lastOp.stale)))
    => /\ lastOp.outcome = Rejected("HTTP " \o ToString(lastOp.status))
       /\ ~lastOp.parsed
       /\ entries = lastOp.entriesBefore
       /\ fetches[lastOp.fetch].stage = "settled"
       /\ fetches[lastOp.fetch].rejected

\* a 304 reaches a fetch without a stale entry while the cache holds an entry
C21_Witness ==
    /\ lastOp.op = "settle"
    /\ lastOp.status = 304
    /\ ~Has(lastOp.stale)
    /\ lastOp.outcome = Rejected("HTTP 304")
    /\ entries # << >>

\* a 4xx reaches a fetch that was started with a stale entry
C21_WitnessClientError ==
    /\ lastOp.op = "settle"
    /\ lastOp.status = 404
    /\ Has(lastOp.stale)
    /\ lastOp.outcome.kind = "rejected"

\* the slots of state object s that are held: tasks whose execute() has been
\* called and has not settled
SlotsHeld(q, s) ==
    Cardinality({t \in 1..Len(q.tasks) :
                    q.tasks[t].state = s /\ q.tasks[t].status = "running"})

\* C22: a scrape that has reached a terminal state holds neither a dedup
\* tracker nor an origin slot.  A call served from the cache or refused for an
\* aborted signal starts nothing and leaves no tracker; the step that settles
\* a fetch leaves no tracker for its URL and marks its queue task done; every
\* origin's active count is the number of its tasks that are executing; and
\* whenever no fetch is in flight the tracker map is empty and every origin
\* has active = 0 and nothing pending.
C22_TerminalReleases ==
    /\ (lastOp.op = "scrape" /\ lastOp.via \in {"hit", "aborted"})
        => lastOp.started = 0 /\ pendingRequests[lastOp.url] = None
    /\ lastOp.op = "settle"
        => /\ pendingRequests[lastOp.url] = None
           /\ oq.tasks[lastOp.fetch].status = "done"
    /\ \A s \in 1..Len(oq.states) : oq.states[s].active = SlotsHeld(oq, s)
    /\ (\A f \in 1..Len(fetches) : fetches[f].stage = "settled")
        => /\ \A u \in Urls : pendingRequests[u] = None
           /\ \A s \in 1..Len(oq.states) :
                 oq.states[s].active = 0 /\ oq.states[s].pending = << >>

\* every fetch the bounds allow has settled, one of them by a rejection and
\* the last one after having waited in the pending queue
C22_Witness ==
    /\ Len(fetches) = MaxFetches
    /\ \A f \in 1..Len(fetches) : fetches[f].stage = "settled"
    /\ \E f \in 1..Len(fetches) : fetches[f].rejected
    /\ \E f \in 1..Len(fetches) : ~fetches[f].rejected
    /\ lastOp.op = "settle"
    /\ oq.tasks[lastOp.fetch].promoted

\* C23: once the timer of fetchWithTimeout has fired, or the caller's signal
\* has fired while the transport call is in flight, the transport call can
\* only end by rejecting: the step in which the fetch leaves the transport
\* stage settles it with the abort error for every caller, and no response
\* is parsed.  Either event alone has this effect.
C23_TimeoutOrSignalRejects ==
    [][\A f \in 1..Len(fetches) :
          (/\ fetches[f].stage = "transport"
           /\ fetches[f].timedOut \/ abortForwarded(fetches[f])
           /\ fetches'[f].stage # "transport")
          => /\ fetches'[f].stage = "settled"
             /\ fetches'[f].rejected
             /\ lastOp'.op = "settle"
             /\ lastOp'.fetch = f
             /\ lastOp'.outcome = Rejected(AbortError)]_vars

\* the timer alone: a fetch shared by two callers is rejected after its timer
\* fired, the signal never having been aborted
C23_Witness ==
    /\ lastOp.op = "settle"
    /\ lastOp.timedOut /\ ~lastOp.forwarded /\ ~aborted
    /\ lastOp.outcome = Rejected(AbortError)
    /\ lastOp.callers = 2

\* the signal alone: a fetch is rejected after the signal fired during its
\* transport call, its timer not having fired
C23_WitnessSignal ==
    /\ lastOp.op = "settle"
    /\ lastOp.forwarded /\ ~lastOp.timedOut
    /\ lastOp.outcome = Rejected(AbortError)

\* C24: a scrape with cache = false (its signal not aborted) neither reads nor
\* writes the cache: it starts a fetch of its own, also when a fresh entry is
\* stored for the URL; that fetch holds no stale entry and sends no
\* conditional header; the call leaves the entry of the URL as it was; and
\* when a fetch started without caching settles, the cache is as it was
\* before and the outcome is not marked as cached.
C24_NoCacheBypassesCache ==
    /\ (lastOp.op = "scrape" /\ ~lastOp.useCache /\ ~lastOp.abortedAtCall)
        => /\ lastOp.via = "started"
           /\ lastOp.started = 1
           /\ lastOp.stale = None
           /\ fetches[lastOp.fetch].stage = "transport"
                 => fetches[lastOp.fetch].headers = Some(buildHeaders(None))
           /\ getStale(entries, lastOp.url) = lastOp.entryAtCall
    /\ (lastOp.op = "settle" /\ ~lastOp.useCache)
        => entries = lastOp.entriesBefore /\ ~lastOp.outcome.cached

\* C24, for the calls that find no tracker for their URL: the same holds.
C24_NoCacheBypassesCacheUnlessJoined ==
    /\ (/\ lastOp.op = "scrape" /\ ~lastOp.useCache /\ ~lastOp.abortedAtCall
         /\ ~Has(lastOp.trackerAtCall))
        => /\ lastOp.via = "started"
           /\ lastOp.started = 1
           /\ lastOp.stale = None
           /\ fetches[lastOp.fetch].stage = "transport"
                 => fetches[lastOp.fetch].headers = Some(buildHeaders(None))
           /\ getStale(entries, lastOp.url) = lastOp.entryAtCall
    /\ (lastOp.op = "settle" /\ ~lastOp.useCache)
        => entries = lastOp.entriesBefore /\ ~lastOp.outcome.cached

\* a scrape with cache = false found a fresh entry for its URL and no tracker,
\* and its own fetch is in the transport stage
C24_Witness ==
    /\ lastOp.op = "scrape" /\ ~lastOp.useCache /\ ~lastOp.abortedAtCall
    /\ ~Has(lastOp.trackerAtCall)
    /\ lastOp.ageAtCall = "below"
    /\ Has(lastOp.entryAtCall)
    /\ lastOp.via = "started"
    /\ fetches[lastOp.fetch].stage = "transport"

\* a fetch started without caching has been parsed and settled while the
\* cache held an entry for its URL
C24_WitnessNoStore ==
    /\ lastOp.op = "settle" /\ ~lastOp.useCache /\ lastOp.parsed
    /\ MapHas(entries, lastOp.url)

\* C30: a scrape with caching enabled of a URL whose stored entry is fresh,
\* made while a fetch of that URL is in flight or tracked, is served from the
\* cache without the tracker having a say: it returns the stored payload with
\* cached = true and neither joins nor starts a fetch.
C30_HitBeforeDedup ==
    (/\ lastOp.op = "scrape" /\ lastOp.useCache
     /\ lastOp.ageAtCall = "below"
     /\ Has(lastOp.trackerAtCall) \/ lastOp.inFlightAtCall # {})
    => /\ lastOp.via = "hit"
       /\ lastOp.fetch = 0
       /\ lastOp.outcome = Some(cachedResponse(Val(lastOp.entryAtCall).data))

\* C32: a progress sink that throws never changes the outcome of scrape: no
\* promise of scrape or executeFetch rejects with the sink's error, a fresh
\* hit returns the stored payload whatever the sink does, and a fetch whose
\* sink throws still reaches the transport.
C32_SinkFailureSwallowed ==
    /\ (lastOp.op = "scrape" /\ lastOp.via = "hit")
        => lastOp.outcome = Some(cachedResponse(Val(lastOp.entryAtCall).data))
    /\ lastOp.op = "settle" => lastOp.outcome # Rejected(SinkError)
    /\ \A f \in 1..Len(fetches) : fetches[f].stage # "threw"

\* C38: a scrape that fetches from the network and succeeds has sent the sink
\* of the caller that started the fetch the phases starting, extracting,
\* complete, in this order and each once; a fresh cache hit sends complete
\* only; a 304 answer to a conditional request sends starting, then complete.
C38_PhaseOrder ==
    /\ (/\ lastOp.op = "settle" /\ lastOp.outcome.kind = "resolved"
        /\ lastOp.sink # "none")
        => lastOp.events = IF lastOp.status = 304
                           THEN <<"starting", "complete">>
                           ELSE <<"starting", "extracting", "complete">>
    /\ (/\ lastOp.op = "scrape" /\ lastOp.via = "hit"
        /\ Val(lastOp.outcome).kind = "resolved" /\ lastOp.sink # "none")
        => lastOp.events = <<"complete">>

\* a fetch started with a sink has parsed a 200 answer and resolved
C38_Witness ==
    /\ lastOp.op = "settle" /\ lastOp.outcome.kind = "resolved"
    /\ lastOp.sink = "quiet" /\ lastOp.status = 200 /\ lastOp.parsed
    /\ Len(lastOp.events) = 3

\* a conditional request of a caller with a sink was answered 304
C38_WitnessNotModified ==
    /\ lastOp.op = "settle" /\ lastOp.outcome.kind = "resolved"
    /\ lastOp.sink = "quiet" /\ lastOp.status = 304 /\ Has(lastOp.stale)

\* a caller with a sink was served a fresh entry
C38_WitnessHit ==
    /\ lastOp.op = "scrape" /\ lastOp.via = "hit" /\ lastOp.sink = "quiet"
    /\ Val(lastOp.outcome).kind = "resolved"

\* a step of the sweep (trackers change, no fetch does) removes the trackers
\* older than the staleness threshold and no other, and touches neither the
\* fetches nor the origin queue
SweepStep ==
    (pendingRequests' # pendingRequests /\ fetches' = fetches)
    => /\ \A u \in Urls :
            pendingRequests'[u] =
               IF /\ Has(pendingRequests[u])
                  /\ now - Val(pendingRequests[u]).startedAt > 30000
               THEN None ELSE pendingRequests[u]
       /\ oq' = oq

\* a fetch that lost its tracker settles its promise for all its callers
SweptStillSettles ==
    (lastOp.op = "settle" /\ lastOp.callers >= 1)
        => fetches[lastOp.fetch].stage = "settled"

\* C33 as stated: the sweep removes exactly the trackers older than 30 s; the
\* fetch of a removed tracker goes on and settles for the callers attached to
\* it; and a scrape (signal not aborted) of a URL whose fetch is in flight
\* without a tracker starts a new fetch.
C33_SweepStopsDedup ==
    /\ [][SweepStep]_vars
    /\ [](/\ SweptStillSettles
          /\ (/\ lastOp.op = "scrape"
               /\ lastOp.inFlightAtCall # {} /\ ~Has(lastOp.trackerAtCall)
               /\ ~lastOp.abortedAtCall)
              => /\ lastOp.via = "started" /\ lastOp.started = 1
                 /\ lastOp.fetch \notin lastOp.inFlightAtCall)

\* C33, for a scrape that is not served from the cache: the same, when the
\* scrape finds no fresh entry for the URL or has caching disabled.
C33_SweepStopsDedupUnlessServed ==
    /\ [][SweepStep]_vars
    /\ [](/\ SweptStillSettles
          /\ (/\ lastOp.op = "scrape"
               /\ lastOp.inFlightAtCall # {} /\ ~Has(lastOp.trackerAtCall)
               /\ ~lastOp.abortedAtCall
               /\ ~(lastOp.useCache /\ lastOp.ageAtCall \in {"below", "equal"}))
              => /\ lastOp.via = "started" /\ lastOp.started = 1
                 /\ lastOp.fetch \notin lastOp.inFlightAtCall)

\* a fetch joined by a second caller lost its tracker to the sweep and is
\* still in flight when a scrape of its URL starts a second fetch
C33_Witness ==
    /\ lastOp.op = "scrape" /\ lastOp.via = "started"
    /\ ~Has(lastOp.trackerAtCall)
    /\ \E f \in lastOp.inFlightAtCall :
          /\ fetches[f].callers = 2
          /\ fetches[f].stage = "transport"
          /\ f # lastOp.fetch

\* C34: the tracker of a fetch in flight leaves the tracker map only in the
\* step that settles that same fetch or in a sweep that finds it older than the
\* staleness threshold; in particular the settlement of an earlier fetch of the
\* URL, whose own tracker was swept, leaves the tracker of the later fetch.
C34_TrackerUntilOwnSettle ==
    [][\A u \in Urls :
          (/\ Has(pendingRequests[u])
           /\ fetches[Val(pendingRequests[u]).fetch].stage # "settled"
           /\ pendingRequests'[u] # pendingRequests[u])
          => \/ fetches'[Val(pendingRequests[u]).fetch].stage = "settled"
             \/ /\ now - Val(pendingRequests[u]).startedAt
                      > STALE_PENDING_THRESHOLD_MS
                /\ fetches' = fetches]_vars

----------------------------------------------------------------------------
(* The adapter serving one call of scrapeMany                               *)

\* the url lists tried: as long as there are URLs, repetitions included
MaxUrls == Cardinality(Urls)
UrlLists == UNION {[1..n -> AllUrls] : n \in 1..MaxUrls}

\* the answers of the transport tried under scrapeMany: one success, one
\* error status (no entry is ever stale there, the clock stands still)
BatchResponses == {r \in Responses : ~Has(r.etag) /\ r.status \notin {304, 404}}

\* scrapeMany cannot start more fetches than it makes attempts
MaxBatchFetches == MaxUrls * (MaxRetries + 1)

\* a caller calls adapter.scrapeMany(urls, {retries, cache: useCache, signal})
BScrapeMany(urls, retries, useCache) ==
    /\ ~Has(batch)
    /\ LET w == scrapeMany(Here, urls, retries, useCache) IN
       /\ entries' = w.entries
       /\ oq' = w.oq
       /\ pendingRequests' = w.pendingRequests
       /\ fetches' = w.fetches
       /\ batch' = Some(w.batch)
    /\ lastOp' = NoOp
    /\ UNCHANGED <<now, maxSize, ttl, maxConcurrency, aborted>>

\* the sleep of loop i ends: attempt++ and the next iteration
BWake(i) ==
    /\ Has(batch)
    /\ i \in 1..Len(Val(batch).loops)
    /\ Val(batch).loops[i].pc = "sleep"
    /\ LET w == iterate(World(Here, [Val(batch) EXCEPT !.loops[i].attempt = @ + 1]), i)
       IN  /\ entries' = w.entries
           /\ oq' = w.oq
           /\ pendingRequests' = w.pendingRequests
           /\ fetches' = w.fetches
           /\ batch' = Some(w.batch)
    /\ lastOp' = NoOp
    /\ UNCHANGED <<now, maxSize, ttl, maxConcurrency, aborted>>

NextBatch ==
    \/ \E urls \in UrlLists, retries \in 0..MaxRetries, useCache \in BOOLEAN :
          BScrapeMany(urls, retries, useCache)
    \/ \E i \in 1..MaxUrls : BWake(i)
    \/ \E f \in 1..MaxBatchFetches, r \in BatchResponses : ARespond(f, r)
    \/ \E f \in 1..MaxBatchFetches : AParsed(f)
    \/ \E f \in 1..MaxBatchFetches, e \in TransportErrors : ATransportFail(f, e)
    \/ AMicrotask
    \/ AAbort

SpecBatch == Init /\ [][NextBatch]_vars

\* the positions of urls that hold u
Positions(u) == {i \in 1..Len(Val(batch).loops) : Val(batch).loops[i].url = u}

\* loop i left because its loop condition became false after a failed attempt
Exhausted(i) ==
    /\ Val(batch).loops[i].pc = "exhausted"
    /\ Val(batch).loops[i].fails > 0

\* what scrapeMany holds for an entry of urls all of whose attempts failed
ExhaustedAsRecorded(i) ==
    LET b == Val(batch)
        l == b.loops[i]
    IN  /\ l.made = b.retries + 1
        /\ l.fails = l.made
        /\ Has(b.failed[l.url])
        /\ b.failed[l.url] = l.lastError
        /\ (lastOp.op = "settle" /\ lastOp.fetch = l.fetch)
              => b.failed[l.url] = Some(lastOp.outcome.error)
        /\ ~Has(b.results[l.url])

\* C9 as stated: scrapeMany not cancelled, every attempt of an entry of urls
\* failed: r + 1 attempts were made, its URL is in failed with the error of the
\* last attempt and is not in results.
C9_ExhaustedInFailedOnly ==
    (Has(batch) /\ ~aborted) =>
        \A i \in 1..Len(Val(batch).loops) : Exhausted(i) => ExhaustedAsRecorded(i)

\* the same, only for a URL that occurs once in urls
C9_ExhaustedInFailedOnlyOnce ==
    (Has(batch) /\ ~aborted) =>
        \A i \in 1..Len(Val(batch).loops) :
            (Exhausted(i) /\ Cardinality(Positions(Val(batch).loops[i].url)) = 1)
                => ExhaustedAsRecorded(i)

\* the last attempt for a URL that occurs once has just failed, retries being
\* the largest tried
C9_Witness ==
    /\ Has(batch) /\ ~aborted
    /\ Val(batch).retries = MaxRetries
    /\ lastOp.op = "settle"
    /\ \E i \in 1..Len(Val(batch).loops) :
          /\ Exhausted(i)
          /\ Cardinality(Positions(Val(batch).loops[i].url)) = 1
          /\ Val(batch).loops[i].fetch = lastOp.fetch
          /\ Val(batch).loops[i].made = MaxRetries + 1

\* what scrapeMany holds for an entry of urls whose attempt number m succeeded
\* after m - 1 failures
SucceededAsRecorded(i) ==
    LET b == Val(batch)
        l == b.loops[i]
    IN  /\ l.made = l.fails + 1
        /\ l.made <= b.retries + 1
        /\ Has(b.results[l.url])
        /\ ~Has(b.failed[l.url])

\* C10 as stated: scrapeMany not cancelled, attempt m <= retries + 1 of an entry
\* of urls is its first success: m attempts were made, its URL is in results
\* and at no time in failed.
C10_SucceededInResultsOnly ==
    (Has(batch) /\ ~aborted) =>
        \A i \in 1..Len(Val(batch).loops) :
            Val(batch).loops[i].pc = "ok" => SucceededAsRecorded(i)

\* the same, only for a URL that occurs once in urls
C10_SucceededInResultsOnlyOnce ==
    (Has(batch) /\ ~aborted) =>
        \A i \in 1..Len(Val(batch).loops) :
            (/\ Val(batch).loops[i].pc = "ok"
             /\ Cardinality(Positions(Val(batch).loops[i].url)) = 1)
                => SucceededAsRecorded(i)

\* an entry whose URL occurs once succeeded at its last attempt, after failing
\* all the others
C10_Witness ==
    /\ Has(batch) /\ ~aborted
    /\ \E i \in 1..Len(Val(batch).loops) :
          /\ Val(batch).loops[i].pc = "ok"
          /\ Cardinality(Positions(Val(batch).loops[i].url)) = 1
          /\ Val(batch).retries = MaxRetries
          /\ Val(batch).loops[i].made = MaxRetries + 1
          /\ Val(batch).loops[i].fails = MaxRetries

----------------------------------------------------------------------------
(* scrapeMany as a whole: Promise.allSettled over the retry loops           *)

\* a retry loop has returned
LoopReturned(l) == l.pc \in {"ok", "exhausted", "cancelled"}

\* Promise.allSettled(...) has settled, so scrapeMany resolves with
\* {results, failed, totalDuration}
allSettled(b) == \A i \in 1..Len(b.loops) : LoopReturned(b.loops[i])

\* the transport, the parser, the timers and the microtask queue do not stall
BatchFairness ==
    /\ WF_vars(\E i \in 1..MaxUrls : BWake(i))
    /\ WF_vars(\E f \in 1..MaxBatchFetches :
                  \/ \E r \in BatchResponses : ARespond(f, r)
                  \/ AParsed(f)
                  \/ \E e \in TransportErrors : ATransportFail(f, e))
    /\ WF_vars(AMicrotask)

SpecBatchLive == Init /\ [][NextBatch]_vars /\ BatchFairness

\* however the other loops fare, a loop that returned without cancellation
\* either succeeded within its budget or used all retries + 1 attempts, and its
\* URL has an entry in results or failed
EachUrlServed ==
    (Has(batch) /\ ~aborted) =>
        \A i \in 1..Len(Val(batch).loops) :
            LET b == Val(batch)
                l == b.loops[i]
            IN  /\ l.made <= b.retries + 1
                /\ LoopReturned(l) =>
                      /\ l.pc # "cancelled"
                      /\ l.pc = "exhausted" => l.made = b.retries + 1
                      /\ l.pc = "exhausted" => Has(b.failed[l.url])
                      /\ l.pc = "ok" => Has(b.results[l.url])

Attempted(b, u) == \E i \in 1..Len(b.loops) : b.loops[i].url = u /\ b.loops[i].made > 0

\* C12: when scrapeMany resolves every input URL is in exactly one of results
\* and failed, or in neither only if the batch was cancelled before the URL was
\* attempted; for every input list, repeated URLs included.
C12_ExactlyOneMap ==
    (Has(batch) /\ allSettled(Val(batch))) =>
        \A i \in 1..Len(Val(batch).loops) :
            LET b == Val(batch)
                u == b.loops[i].url
            IN  \/ Has(b.results[u]) /\ ~Has(b.failed[u])
                \/ ~Has(b.results[u]) /\ Has(b.failed[u])
                \/ /\ ~Has(b.results[u]) /\ ~Has(b.failed[u])
                   /\ aborted /\ ~Attempted(b, u)

\* C16: when the signal is aborted at the moment an attempt fails, no backoff
\* delay is scheduled and no further attempt is made: a loop whose awaited
\* fetch has just been rejected with the signal aborted has returned.
C16_NoBackoffWhenAborted ==
    (/\ Has(batch) /\ aborted
     /\ lastOp.op = "settle" /\ lastOp.outcome.kind = "rejected")
        => \A i \in 1..Len(Val(batch).loops) :
              Val(batch).loops[i].fetch = lastOp.fetch
                  => LoopReturned(Val(batch).loops[i])

\* C17: a URL for which no attempt was made (the signal was asserted before
\* its first attempt) is in neither results nor failed; in particular no URL is
\* in failed without an attempt having been made for it.
C17_UnattemptedInNeitherMap ==
    Has(batch) =>
        \A u \in Urls :
            ~Attempted(Val(batch), u)
                => ~Has(Val(batch).results[u]) /\ ~Has(Val(batch).failed[u])

\* scrapeMany was called with the signal already aborted: every loop, of two
\* different URLs, broke out before its first attempt
C17_Witness ==
    /\ Has(batch) /\ aborted /\ allSettled(Val(batch))
    /\ Len(Val(batch).loops) = 2
    /\ Val(batch).loops[1].url # Val(batch).loops[2].url
    /\ \A i \in 1..2 : /\ Val(batch).loops[i].pc = "cancelled"
                       /\ Val(batch).loops[i].made = 0


\* C31: in scrapeMany a malformed URL is a terminal failure at once: its loop
\* makes one attempt, never sleeps before another one, starts no fetch, and
\* has recorded the URL in failed as soon as that attempt has been made.
C31_MalformedTerminal ==
    Has(batch) =>
        \A i \in 1..Len(Val(batch).loops) :
            LET b == Val(batch)
                l == b.loops[i]
            IN  l.url \in BadUrls
                  => /\ l.made <= 1
                     /\ l.pc # "sleep"
                     /\ l.fetch = 0
                     /\ l.made = 1 => l.pc = "exhausted" /\ Has(b.failed[l.url])

\* what does hold for a malformed URL: no fetch is ever started for it, and
\* once its loop has returned after retries + 1 attempts it is in failed only
C31_MalformedNeverFetched ==
    Has(batch) =>
        \A i \in 1..Len(Val(batch).loops) :
            LET b == Val(batch)
                l == b.loops[i]
            IN  l.url \in BadUrls
                  => /\ l.fetch = 0
                     /\ \A f \in 1..Len(fetches) : fetches[f].url # l.url
                     /\ l.pc = "exhausted"
                           => /\ l.made = b.retries + 1
                              /\ Has(b.failed[l.url])
                              /\ ~Has(b.results[l.url])


----------------------------------------------------------------------------
(* UndiciScraperAdapter: src/src/adapters/undici/scraper.adapter.ts 28-250 *)
(* Its cache is a plain Map from URL to {data, timestamp}; here `entries`   *)
(* is that Map, maxSize is maxCacheSize and ttl is cacheTTL.               *)

\* the index of the entry that [...cache.entries()].sort((a, b) =>
\* a[1].timestamp - b[1].timestamp) puts first: the least timestamp, and among
\* equal timestamps the one first in Map order (Array.prototype.sort is stable)
OldestIndex(es) ==
    CHOOSE i \in 1..Len(es) :
        \A j \in 1..Len(es) :
            \/ es[i].entry.timestamp < es[j].entry.timestamp
            \/ es[i].entry.timestamp = es[j].entry.timestamp /\ i <= j

\* for (const [key] of oldest) this.cache.delete(key), for the first `count`
\* entries of the sorted array
RECURSIVE deleteOldest(_, _)
deleteOldest(es, count) ==
    IF count = 0 \/ es = << >> THEN es
    ELSE deleteOldest(MapDelete(es, es[OldestIndex(es)].key), count - 1)

\* Math.floor(maxCacheSize * 0.1)
EvictionShare(m) == m \div 10

\* UndiciScraperAdapter.setCache
undiciSetCache(es, m, url, entry) ==
    LET d == IF Len(es) >= m THEN deleteOldest(es, EvictionShare(m)) ELSE es
    IN  MapSet(d, url, entry)

\* the cache test of UndiciScraperAdapter.scrape:
\* cached && Date.now() - cached.timestamp < this.cacheTTL
undiciFresh(es, t, n, url) ==
    MapHas(es, url) /\ n - es[MapGet(es, url)].entry.timestamp < t

InitUndici ==
    /\ now = 0
    /\ maxSize \in 1..MaxCap
    /\ ttl \in TtlChoices
    /\ entries = << >>
    /\ lastOp = NoOp
    /\ QueueUnused /\ AdapterUnused /\ BatchUnused

\* adapter.scrape(url) with caching enabled, answered successfully: a fresh
\* entry is returned as it is, otherwise the result is stored by setCache
UScrape(url) ==
    /\ entries' = IF undiciFresh(entries, ttl, now, url) THEN entries
                  ELSE undiciSetCache(entries, maxSize, url,
                                      CacheEntry("p1", now, None, None, None))
    /\ lastOp' = [op |-> "undici", url |-> url,
                  cached |-> undiciFresh(entries, ttl, now, url)]
    /\ UNCHANGED <<now, maxSize, ttl, maxConcurrency, oq, pendingRequests,
                   fetches, aborted, batch>>

\* adapter.clearCache()
UClearCache ==
    /\ entries' = << >>
    /\ lastOp' = [op |-> "clear"]
    /\ UNCHANGED <<now, maxSize, ttl, maxConcurrency, oq, pendingRequests,
                   fetches, aborted, batch>>

NextUndici ==
    \/ \E url \in Keys : UScrape(url)
    \/ UClearCache
    \/ CTick

SpecUndici == InitUndici /\ [][NextUndici]_vars

\* C40: after any sequence of successful cached scrapes of distinct URLs the
\* cache of UndiciScraperAdapter holds at most maxCacheSize entries, for every
\* maxCacheSize >= 1.
C40_UndiciSizeBound ==
    lastOp.op = "undici" => Len(entries) <= maxSize
=============================================================================
